---------------------------- MODULE Spec2Model ----------------------------
(***************************************************************************)
(* Input-weight equalization for FX graph mode quantization                *)
(* (torch/quantization/fx/_equalize.py).                                   *)
(*                                                                         *)
(* The model has two specifications.                                       *)
(*   Spec       _convert_equalization_ref run on a calibrated graph:       *)
(*              update_obs_for_equalization (phase 1) followed by          *)
(*              convert_eq_obs (phase 2), one action per loop iteration,   *)
(*              optionally followed by a second run on the returned graph. *)
(*   ScaleSpec  calculate_equalization_scale applied to bounded min/max    *)
(*              statistics.                                                *)
(*                                                                         *)
(* Numbers are exact rationals num/den extended with +inf (1/0),           *)
(* -inf (-1/0) and NaN (0/0), so that a division by zero produces what     *)
(* torch produces.  The square root is exact; the statistics the model     *)
(* draws are chosen so that every ratio whose root is taken is the square  *)
(* of a rational.                                                          *)
(***************************************************************************)
EXTENDS Integers, Sequences, FiniteSets, TLC

(***************************************************************************)
(* Scalars                                                                 *)
(***************************************************************************)
Abs(n) == IF n < 0 THEN -n ELSE n

Sign(n) == IF n < 0 THEN -1 ELSE IF n = 0 THEN 0 ELSE 1

RECURSIVE GCD(_, _)
GCD(a, b) == IF b = 0 THEN a ELSE GCD(b, a % b)

Norm(n, d) ==
    IF d = 0 THEN [num |-> Sign(n), den |-> 0]
    ELSE LET g == GCD(Abs(n), Abs(d))
             s == IF d < 0 THEN -1 ELSE 1
         IN  [num |-> (s * n) \div g, den |-> (s * d) \div g]

R(n) == [num |-> n, den |-> 1]

Frac(n, d) == Norm(n, d)

PosInf == [num |-> 1, den |-> 0]

NegInf == [num |-> -1, den |-> 0]

NaN == [num |-> 0, den |-> 0]

IsNaN(a) == a.num = 0 /\ a.den = 0

IsInf(a) == a.num # 0 /\ a.den = 0

IsFinite(a) == a.den # 0

RMul(a, b) == Norm(a.num * b.num, a.den * b.den)

RAdd(a, b) ==
    IF a.den = 0 /\ b.den = 0
    THEN (IF a = b THEN a ELSE NaN)
    ELSE Norm(a.num * b.den + b.num * a.den, a.den * b.den)

RNeg(a) == [num |-> -a.num, den |-> a.den]

RSub(a, b) == RAdd(a, RNeg(b))

RDiv(a, b) == Norm(a.num * b.den, a.den * b.num)

RRecip(a) == Norm(a.den, a.num)

RLe(a, b) ==
    /\ ~IsNaN(a)
    /\ ~IsNaN(b)
    /\ a.num * b.den <= b.num * a.den

RLt(a, b) == RLe(a, b) /\ a # b

ISqrt(n) == CHOOSE k \in 0..n : k * k = n

RSqrt(a) ==
    IF a.num < 0 THEN NaN
    ELSE [num |-> ISqrt(a.num), den |-> ISqrt(a.den)]

(***************************************************************************)
(* Tensors of at most two dimensions.  A 0-dim tensor holds one scalar, a  *)
(* 1-dim tensor a sequence of scalars, a 2-dim tensor a sequence of rows.  *)
(***************************************************************************)
T0(r) == [ndim |-> 0, val |-> r, ncols |-> 1]

T1(s) == [ndim |-> 1, val |-> s, ncols |-> Len(s)]

T2(rows, ncols) == [ndim |-> 2, val |-> rows, ncols |-> ncols]

EmptyTensor == T1(<<>>)

NoneValue == [ndim |-> -1, val |-> <<>>, ncols |-> 0]

IsNone(t) == t.ndim = -1

\* The shape of a tensor, right-aligned to two dimensions as broadcasting does.
Shape2(t) ==
    CASE t.ndim = 0 -> <<1, 1>>
      [] t.ndim = 1 -> <<1, Len(t.val)>>
      [] t.ndim = 2 -> <<Len(t.val), t.ncols>>

Shape(t) ==
    CASE t.ndim = 0 -> <<>>
      [] t.ndim = 1 -> <<Len(t.val)>>
      [] t.ndim = 2 -> <<Len(t.val), t.ncols>>

Numel(t) == Shape2(t)[1] * Shape2(t)[2]

At(t, i, j) ==
    CASE t.ndim = 0 -> t.val
      [] t.ndim = 1 -> t.val[j]
      [] t.ndim = 2 -> t.val[i][j]

Make(ndim, r, c, f(_, _)) ==
    CASE ndim = 0 -> T0(f(1, 1))
      [] ndim = 1 -> T1([j \in 1..c |-> f(1, j)])
      [] ndim = 2 -> T2([i \in 1..r |-> [j \in 1..c |-> f(i, j)]], c)

DimOK(m, n) == m = n \/ m = 1 \/ n = 1

DimOut(m, n) == IF m = 1 THEN n ELSE m

Broadcastable(a, b) ==
    /\ DimOK(Shape2(a)[1], Shape2(b)[1])
    /\ DimOK(Shape2(a)[2], Shape2(b)[2])

Max2(m, n) == IF m >= n THEN m ELSE n

Pointwise(a, b, op(_, _)) ==
    LET sa == Shape2(a)
        sb == Shape2(b)
        f(i, j) == op(At(a, IF sa[1] = 1 THEN 1 ELSE i, IF sa[2] = 1 THEN 1 ELSE j),
                      At(b, IF sb[1] = 1 THEN 1 ELSE i, IF sb[2] = 1 THEN 1 ELSE j))
    IN  Make(Max2(a.ndim, b.ndim), DimOut(sa[1], sb[1]), DimOut(sa[2], sb[2]), f)

TMul(a, b) == Pointwise(a, b, RMul)

TSub(a, b) == Pointwise(a, b, RSub)

TDiv(a, b) == Pointwise(a, b, RDiv)

TAdd(a, b) == Pointwise(a, b, RAdd)

Map1(a, op(_)) ==
    LET f(i, j) == op(At(a, i, j))
    IN  Make(a.ndim, Shape2(a)[1], Shape2(a)[2], f)

TReciprocal(a) == Map1(a, RRecip)

TSqrt(a) == Map1(a, RSqrt)

\* The elements of a tensor in row-major order.
Flat(t) ==
    LET s == Shape2(t)
    IN  [k \in 1..(s[1] * s[2]) |->
            At(t, ((k - 1) \div s[2]) + 1, ((k - 1) % s[2]) + 1)]

ViewOK(t, r, c) == Numel(t) = r * c

View(t, r, c) ==
    LET fl == Flat(t)
    IN  T2([i \in 1..r |-> [j \in 1..c |-> fl[(i - 1) * c + j]]], c)

RECURSIVE SeqMin(_)
SeqMin(s) ==
    IF Len(s) = 1 THEN s[1]
    ELSE LET m == SeqMin(Tail(s))
         IN  IF IsNaN(s[1]) \/ (~IsNaN(m) /\ RLe(s[1], m)) THEN s[1] ELSE m

RECURSIVE SeqMax(_)
SeqMax(s) ==
    IF Len(s) = 1 THEN s[1]
    ELSE LET m == SeqMax(Tail(s))
         IN  IF IsNaN(s[1]) \/ (~IsNaN(m) /\ RLe(m, s[1])) THEN s[1] ELSE m

TMin(t) == T0(SeqMin(Flat(t)))

TMax(t) == T0(SeqMax(Flat(t)))

\* x [batch, in] times the transpose of w [out, in], plus bias [out] if any.
Linear(x, w, b) ==
    LET RECURSIVE Dot(_, _, _)
        Dot(i, o, k) ==
            IF k = 0 THEN R(0)
            ELSE RAdd(Dot(i, o, k - 1), RMul(x.val[i][k], w.val[o][k]))
        f(i, o) == IF IsNone(b) THEN Dot(i, o, x.ncols)
                   ELSE RAdd(Dot(i, o, x.ncols), b.val[o])
    IN  Make(2, Len(x.val), Len(w.val), f)


(***************************************************************************)
(* Bounds and fixtures                                                     *)
(***************************************************************************)
\* calculate_equalization_scale is applied to statistics of 0..MaxChannels channels.
MaxChannels == 2

\* Ranges of the recorded statistics are 2*k*k for k in 1..MaxRoot.
MaxRoot == 2

\* Number of times _convert_equalization_ref is applied to the same model.
MaxRuns == 2

\* Network inputs used to compare graphs take entries in -MaxX..MaxX.
MaxX == 1

Widths == {2 * k * k : k \in 1..MaxRoot}

\* Per-layer lower ends of the calibrated activation ranges (one per feature).
MinInputs == << <<-1, 0>>, <<0, -2>> >>

\* Weights [out_features, in_features] and biases [out_features] per layer.
WeightChoices ==
    << { << <<-1, 1>>, <<1, 9>> >>, << <<0, -8>>, <<8, 10>> >> },
       { << <<1, -1>>, <<3, 1>> >> } >>

BiasValues == << <<1, -2>>, <<3, 1>> >>

NumFeatures == Len(MinInputs[1])

IntT1(s) == T1([j \in 1..Len(s) |-> R(s[j])])

IntT2(m) == T2([i \in 1..Len(m) |-> [j \in 1..Len(m[i]) |-> R(m[i][j])]], Len(m[1]))

(***************************************************************************)
(* Graph: the node list in order plus each node's op, target and args.     *)
(***************************************************************************)
VARIABLES
    graph,                \* model.graph
    modules,              \* dict(model.named_modules()): target -> module state
    attrs,                \* tensor attributes of the model read by get_attr nodes
    qconfig_map,          \* model._equalization_qconfig_map (node names with a config)
    weight_eq_obs_dict,   \* result of phase 1, input of phase 2
    pc,                   \* "phase1", "phase2", "done", "error", "idle"
    cur,                  \* node the running loop looks at next, or End
    err,                  \* exception that aborted the pass, or "none"
    run,                  \* number of the current application of the pass
    warned,               \* probes for which warnings.warn was called
    cfg,                  \* the drawn model (history)
    orig,                 \* graph, modules and attrs before the pass (history)
    snap,                 \* graph, modules and attrs when the previous run returned (history)
    scale_in,             \* ScaleSpec: the drawn observers and the call's outcome
    scale_out

vars == <<graph, modules, attrs, qconfig_map, weight_eq_obs_dict, pc, cur, err,
          run, warned, cfg, orig, snap, scale_in, scale_out>>

End == "<end>"

NoModule == [kind |-> "none", weight |-> NoneValue, bias |-> NoneValue,
             min_val |-> NoneValue, max_val |-> NoneValue,
             equalization_scale |-> NoneValue]

LinearModule(w, b) == [NoModule EXCEPT !.kind = "Linear", !.weight = w, !.bias = b]

\* _InputEqualizationObserver: min_val/max_val are input_obs.min_vals/max_vals.
InputEqObs(mn, mx) ==
    [NoModule EXCEPT !.kind = "InputEqObs", !.min_val = mn, !.max_val = mx,
                     !.equalization_scale = EmptyTensor]

\* _WeightEqualizationObserver: min_val/max_val are weight_col_obs.min_vals/max_vals.
WeightEqObs(mn, mx) ==
    [NoModule EXCEPT !.kind = "WeightEqObs", !.min_val = mn, !.max_val = mx,
                     !.equalization_scale = EmptyTensor]

\* A quantization observer (an ObserverBase such as MinMaxObserver).
QuantObs(mn, mx) ==
    [NoModule EXCEPT !.kind = "Observer", !.min_val = mn, !.max_val = mx]

Node(name, op, target, args) == [name |-> name, op |-> op, target |-> target, args |-> args]

MkGraph(ns) ==
    [order |-> [i \in 1..Len(ns) |-> ns[i].name],
     node  |-> [n \in {ns[i].name : i \in 1..Len(ns)} |->
                   LET i == CHOOSE i \in 1..Len(ns) : ns[i].name = n
                   IN  [op |-> ns[i].op, target |-> ns[i].target, args |-> ns[i].args]]]

Live(g) == {g.order[i] : i \in 1..Len(g.order)}

IndexOf(g, n) == CHOOSE i \in 1..Len(g.order) : g.order[i] = n

First(g) == IF Len(g.order) = 0 THEN End ELSE g.order[1]

\* node._next as the iterator of graph.nodes follows it
NextOf(g, n) ==
    IF IndexOf(g, n) = Len(g.order) THEN End ELSE g.order[IndexOf(g, n) + 1]

InArgs(g, u, n) == \E k \in 1..Len(g.node[u].args) : g.node[u].args[k] = n

\* node.users, in node-list order
RECURSIVE UsersFrom(_, _, _)
UsersFrom(g, n, i) ==
    IF i > Len(g.order) THEN <<>>
    ELSE IF InArgs(g, g.order[i], n)
         THEN <<g.order[i]>> \o UsersFrom(g, n, i + 1)
         ELSE UsersFrom(g, n, i + 1)

Users(g, n) == UsersFrom(g, n, 1)


(***************************************************************************)
(* A world is the mutable state a helper of the pass works on: the graph,  *)
(* the modules, the model's tensor attributes, the diagnostics emitted and *)
(* the exception raised so far ("none" while none was).  Every helper      *)
(* maps a world to a world and does nothing once an exception is pending.  *)
(***************************************************************************)
World(g, m, a, wd) == [graph |-> g, modules |-> m, attrs |-> a, warned |-> wd, err |-> "none"]

Raise(w, e) == [w EXCEPT !.err = e]

OK(w) == w.err = "none"

\* torch.quantization.utils.check_min_max_valid
check_min_max_valid(min_val, max_val) ==
    /\ Numel(min_val) > 0
    /\ Numel(max_val) > 0
    /\ Numel(min_val) = Numel(max_val)
    /\ \A k \in 1..Numel(min_val) :
          /\ IsFinite(Flat(min_val)[k])
          /\ IsFinite(Flat(max_val)[k])
          /\ RLe(Flat(min_val)[k], Flat(max_val)[k])

\* calculate_equalization_scale that takes the ratio of the ranges as the scale
calculate_equalization_scale_no_sqrt(input_obs, weight_obs) ==
    LET min_inputs  == input_obs.min_val
        max_inputs  == input_obs.max_val
        min_weights == weight_obs.min_val
        max_weights == weight_obs.max_val
    IN  IF ~(check_min_max_valid(min_inputs, max_inputs)
             /\ check_min_max_valid(min_weights, max_weights))
        THEN [raised |-> "none", value |-> T0(R(1))]
        ELSE IF ~(Shape(min_inputs) = Shape(min_weights))
        THEN [raised |-> "ValueError", value |-> NoneValue]
        ELSE [raised |-> "none",
              value  |-> TDiv(TSub(max_weights, min_weights),
                              TSub(max_inputs, min_inputs))]

\* calculate_equalization_scale that falls back to the identity scale when the
\* shapes differ
calculate_equalization_scale_no_raise(input_obs, weight_obs) ==
    LET min_inputs  == input_obs.min_val
        max_inputs  == input_obs.max_val
        min_weights == weight_obs.min_val
        max_weights == weight_obs.max_val
    IN  IF ~(check_min_max_valid(min_inputs, max_inputs)
             /\ check_min_max_valid(min_weights, max_weights))
        THEN [raised |-> "none", value |-> T0(R(1))]
        ELSE IF ~(Shape(min_inputs) = Shape(min_weights))
        THEN [raised |-> "none", value |-> T0(R(1))]
        ELSE [raised |-> "none",
              value  |-> TSqrt(TDiv(TSub(max_weights, min_weights),
                                    TSub(max_inputs, min_inputs)))]

\* calculate_equalization_scale: [raised, value]
calculate_equalization_scale(input_obs, weight_obs) ==
    LET min_inputs  == input_obs.min_val
        max_inputs  == input_obs.max_val
        min_weights == weight_obs.min_val
        max_weights == weight_obs.max_val
    IN  IF ~(check_min_max_valid(min_inputs, max_inputs)
             /\ check_min_max_valid(min_weights, max_weights))
        THEN [raised |-> "none", value |-> T0(R(1))]
        ELSE IF ~(Shape(min_inputs) = Shape(min_weights))
        THEN [raised |-> "ValueError", value |-> NoneValue]
        ELSE [raised |-> "none",
              value  |-> TSqrt(TDiv(TSub(max_weights, min_weights),
                                    TSub(max_inputs, min_inputs)))]

\* _InputEqualizationObserver.calculate_scaled_minmax: [raised, warn, min, max]
calculate_scaled_minmax(obs) ==
    IF Numel(obs.equalization_scale) = 0
    THEN [raised |-> "none", warn |-> TRUE, min |-> IntT1(<<0>>), max |-> IntT1(<<0>>)]
    ELSE IF ~Broadcastable(obs.min_val, obs.equalization_scale)
            \/ Numel(obs.min_val) = 0
    THEN [raised |-> "RuntimeError", warn |-> FALSE, min |-> NoneValue, max |-> NoneValue]
    ELSE [raised |-> "none", warn |-> FALSE,
          min |-> TMin(TMul(obs.min_val, obs.equalization_scale)),
          max |-> TMax(TMul(obs.max_val, obs.equalization_scale))]

\* PerChannelMinMaxObserver(ch_axis=1) run once on a 2-dim tensor
ColMin(t) == T1([j \in 1..t.ncols |-> SeqMin([i \in 1..Len(t.val) |-> t.val[i][j]])])

ColMax(t) == T1([j \in 1..t.ncols |-> SeqMax([i \in 1..Len(t.val) |-> t.val[i][j]])])

\* node_supports_equalization
node_supports_equalization(w, n) ==
    LET nd == w.graph.node[n]
    IN  IF nd.op = "call_module" THEN w.modules[nd.target].kind = "Linear"
        ELSE IF nd.op = "call_function" THEN nd.target = "F.linear"
        ELSE FALSE

IsModuleNode(w, n, kind) ==
    /\ w.graph.node[n].op = "call_module"
    /\ w.modules[w.graph.node[n].target].kind = kind

\* utils.WEIGHT_INDEX_DICT: position of the weight among the operands (from 0)
WEIGHT_INDEX_DICT == [x \in {"F.linear"} |-> 1]

WEIGHT_ATTR_INDEX_DICT == [eq_obs |-> 1, quant_obs |-> 2, get_attr |-> 3]

RECURSIVE StepBack(_, _, _)
StepBack(g, n, k) ==
    IF k = 0 THEN [err |-> "none", node |-> n]
    ELSE IF Len(g.node[n].args) = 0 THEN [err |-> "IndexError", node |-> n]
    ELSE StepBack(g, g.node[n].args[1], k - 1)

\* maybe_get_functional_weight_node: [err, node]
maybe_get_functional_weight_node(w, op_node, attr) ==
    LET nd == w.graph.node[op_node]
    IN  IF ~(nd.op = "call_function" /\ nd.target \in DOMAIN WEIGHT_INDEX_DICT)
        THEN [err |-> "AssertionError", node |-> op_node]
        ELSE IF Len(nd.args) < WEIGHT_INDEX_DICT[nd.target] + 1
        THEN [err |-> "LookupError", node |-> op_node]
        ELSE LET n == nd.args[WEIGHT_INDEX_DICT[nd.target] + 1]
             IN  IF ~IsModuleNode(w, n, "WeightEqObs")
                 THEN [err |-> "AssertionError", node |-> n]
                 ELSE StepBack(w.graph, n, WEIGHT_ATTR_INDEX_DICT[attr] - 1)

\* the first node of us (in order) that is a module of the kind, or End
FirstModule(w, us, kind) ==
    LET hits == {k \in 1..Len(us) : IsModuleNode(w, us[k], kind)}
    IN  IF hits = {} THEN End
        ELSE us[CHOOSE k \in hits : \A l \in hits : k <= l]

\* utils.maybe_get_next_module: the first user that is a module of the kind, or End
maybe_get_next_module(w, n, kind) == FirstModule(w, Users(w.graph, n), kind)

\* maybe_get_next_input_eq_obs, once the next quantization observer is known
NextInputEqObsAfter(w, maybe_obs_node) ==
    IF maybe_obs_node = End THEN End
    ELSE maybe_get_next_module(w, maybe_obs_node, "InputEqObs")

\* maybe_get_next_input_eq_obs: the target of the next input probe, or End
maybe_get_next_input_eq_obs(w, n) ==
    NextInputEqObsAfter(w, maybe_get_next_module(w, n, "Observer"))

\* maybe_get_next_equalization_scale, once the next input probe is known
ScaleOfProbe(w, next_inp_eq_obs) ==
    IF next_inp_eq_obs # End
    THEN w.modules[next_inp_eq_obs].equalization_scale
    ELSE NoneValue

\* maybe_get_next_equalization_scale: the next probe's scale, or NoneValue
maybe_get_next_equalization_scale(w, n) ==
    ScaleOfProbe(w, maybe_get_next_input_eq_obs(w, n))

\* the first node of us (in order) that supports equalization, or End
FirstSupported(w, us) ==
    LET hits == {k \in 1..Len(us) : node_supports_equalization(w, us[k])}
    IN  IF hits = {} THEN End
        ELSE us[CHOOSE k \in hits : \A l \in hits : k <= l]

NoOpNode(e) == [err |-> e, op_node |-> End, weight_eq_obs |-> NoModule]

\* get_op_node_and_weight_eq_obs for a functional operator whose weight probe
\* was looked up
FunctionalWeightEqObs(w, op_node, wn) ==
    IF wn.err # "none" THEN NoOpNode(wn.err)
    ELSE [err |-> "none", op_node |-> op_node,
          weight_eq_obs |-> w.modules[w.graph.node[wn.node].target]]

\* get_op_node_and_weight_eq_obs once the operator behind the probe is known
WeightEqObsOf(w, qmap, op_node) ==
    IF op_node = End THEN NoOpNode("AssertionError")
    ELSE IF w.graph.node[op_node].op = "call_module"
    THEN IF op_node \notin qmap
         THEN NoOpNode("AssertionError")
         ELSE [err |-> "none", op_node |-> op_node,
               weight_eq_obs |-> WeightEqObs(EmptyTensor, EmptyTensor)]
    ELSE FunctionalWeightEqObs(w, op_node,
                               maybe_get_functional_weight_node(w, op_node, "eq_obs"))

\* get_op_node_and_weight_eq_obs: [err, op_node, weight_eq_obs]
get_op_node_and_weight_eq_obs(w, qmap, input_eq_obs_node) ==
    WeightEqObsOf(w, qmap, FirstSupported(w, Users(w.graph, input_eq_obs_node)))


(***************************************************************************)
(* Graph mutation primitives of torch.fx                                   *)
(***************************************************************************)
\* fx gives a new node the first unused name among base, base_1, base_2, ...
FreshName(g, base) ==
    LET cands == <<base, base \o "_1", base \o "_2", base \o "_3">>
    IN  cands[CHOOSE k \in 1..Len(cands) :
                 /\ cands[k] \notin DOMAIN g.node
                 /\ \A l \in 1..(k - 1) : cands[l] \in DOMAIN g.node]

InsertAt(g, i, name, nd) ==
    [order |-> SubSeq(g.order, 1, i - 1) \o <<name>> \o SubSeq(g.order, i, Len(g.order)),
     node  |-> [n \in DOMAIN g.node \cup {name} |-> IF n = name THEN nd ELSE g.node[n]]]

\* graph.create_node under graph.inserting_before(ref)
InsertBefore(g, ref, name, nd) == InsertAt(g, IndexOf(g, ref), name, nd)

\* graph.create_node under graph.inserting_after(ref)
InsertAfter(g, ref, name, nd) == InsertAt(g, IndexOf(g, ref) + 1, name, nd)

\* user.replace_input_with(old, new)
replace_input_with(g, user, old, new) ==
    [g EXCEPT !.node[user].args =
        [k \in DOMAIN @ |-> IF @[k] = old THEN new ELSE @[k]]]

\* the loop of remove_node: every user of node reads prev_node instead
RelinkUsers(g, n, prev_node) ==
    [g EXCEPT !.node =
        [u \in DOMAIN g.node |->
            IF InArgs(g, u, n)
            THEN [g.node[u] EXCEPT !.args =
                    [k \in DOMAIN @ |-> IF @[k] = n THEN prev_node ELSE @[k]]]
            ELSE g.node[u]]]

SeqWithout(s, x) == SelectSeq(s, LAMBDA y : y # x)

\* graph.erase_node
erase_node(g, n) ==
    [order |-> SeqWithout(g.order, n),
     node  |-> [m \in DOMAIN g.node \ {n} |-> g.node[m]]]

\* remove_node once the users are relinked: graph.erase_node refuses a node
\* that still has users
EraseRelinked(w, g1, n) ==
    IF Len(Users(g1, n)) > 0 THEN Raise([w EXCEPT !.graph = g1], "RuntimeError")
    ELSE [w EXCEPT !.graph = erase_node(g1, n)]

\* remove_node
remove_node(w, n, prev_node) ==
    IF ~OK(w) THEN w
    ELSE EraseRelinked(w, RelinkUsers(w.graph, n, prev_node), n)

(***************************************************************************)
(* Phase 2 helpers                                                         *)
(***************************************************************************)
\* scale_input_observer lines 356-359: the scaled extremes are stored
StoreScaledMinMax(w, n, qt, r) ==
    IF r.raised # "none" THEN Raise(w, r.raised)
    ELSE [w EXCEPT !.modules[qt].min_val = r.min,
                   !.modules[qt].max_val = r.max,
                   !.warned = IF r.warn THEN w.warned \cup {n} ELSE w.warned]

\* scale_input_observer
scale_input_observer(w, n) ==
    LET input_quant_obs_node == w.graph.node[n].args[1]
        qt == w.graph.node[input_quant_obs_node].target
    IN  IF qt \notin DOMAIN w.modules THEN Raise(w, "KeyError")
        ELSE IF w.modules[qt].kind # "Observer" THEN w
        ELSE StoreScaledMinMax(w, n, qt,
                               calculate_scaled_minmax(w.modules[w.graph.node[n].target]))

\* scale_weight_node lines 396-401: the bias times the next scale
ScaleModuleBias(w, t, next_equalization_scale) ==
    IF IsNone(w.modules[t].bias) THEN Raise(w, "AssertionError")
    ELSE IF ~Broadcastable(w.modules[t].bias, next_equalization_scale)
    THEN Raise(w, "RuntimeError")
    ELSE [w EXCEPT !.modules[t].bias = TMul(@, next_equalization_scale)]

\* scale_weight_node lines 385-394: the rows times the next scale
ScaleModuleRows(w, t, scaled_weight, next_equalization_scale) ==
    IF IsNone(next_equalization_scale)
    THEN [w EXCEPT !.modules[t].weight = scaled_weight]
    ELSE IF ~ViewOK(next_equalization_scale, Len(w.modules[t].weight.val), 1)
    THEN Raise(w, "RuntimeError")
    ELSE ScaleModuleBias(
             [w EXCEPT !.modules[t].weight =
                 TMul(scaled_weight,
                      View(next_equalization_scale, Len(w.modules[t].weight.val), 1))],
             t, next_equalization_scale)

\* scale_weight_node that multiplies the weight by the scale instead of by
\* its reciprocal
scale_weight_node_no_reciprocal(w, n, equalization_scale, next_equalization_scale) ==
    LET t == w.graph.node[n].target
    IN  IF ~Broadcastable(w.modules[t].weight, equalization_scale)
        THEN Raise(w, "RuntimeError")
        ELSE ScaleModuleRows(w, t, TMul(w.modules[t].weight, equalization_scale),
                             next_equalization_scale)

\* scale_weight_node
scale_weight_node(w, n, equalization_scale, next_equalization_scale) ==
    LET t == w.graph.node[n].target
    IN  IF ~Broadcastable(w.modules[t].weight, equalization_scale)
        THEN Raise(w, "RuntimeError")
        ELSE ScaleModuleRows(w, t,
                             TMul(w.modules[t].weight, TReciprocal(equalization_scale)),
                             next_equalization_scale)

\* 'bias' in node.name
BiasNames == {"bias1", "bias2"}

\* scale_weight_functional lines 439-444: the first get_attr node named like a
\* bias among us, or End
FirstBiasNode(w, us) ==
    LET hits == {k \in 1..Len(us) :
                    w.graph.node[us[k]].op = "get_attr" /\ us[k] \in BiasNames}
    IN  IF hits = {} THEN End
        ELSE us[CHOOSE k \in hits : \A l \in hits : k <= l]

\* scale_weight_functional lines 445-452: the bias times the next scale
ScaleFunctionalBias(w, bias_node, next_equalization_scale) ==
    IF bias_node = End THEN w
    ELSE IF ~Broadcastable(w.attrs[w.graph.node[bias_node].target], next_equalization_scale)
    THEN Raise(w, "RuntimeError")
    ELSE [w EXCEPT !.attrs[w.graph.node[bias_node].target] =
                       TMul(@, next_equalization_scale)]

\* scale_weight_functional lines 426-446: the rows times the next scale, then
\* the bias is looked for among the users of the operator
ScaleFunctionalRows(w, op_node, wt, scaled_weight, next_equalization_scale) ==
    IF IsNone(next_equalization_scale)
    THEN [w EXCEPT !.attrs[wt] = scaled_weight]
    ELSE IF ~ViewOK(next_equalization_scale, Len(w.attrs[wt].val), 1)
    THEN Raise(w, "RuntimeError")
    ELSE ScaleFunctionalBias(
             [w EXCEPT !.attrs[wt] =
                 TMul(scaled_weight,
                      View(next_equalization_scale, Len(w.attrs[wt].val), 1))],
             FirstBiasNode(w, Users(w.graph, op_node)),
             next_equalization_scale)

\* scale_weight_functional once the get_attr node of the weight was looked up
ScaleFunctionalWeight(w, op_node, wn, equalization_scale, next_equalization_scale) ==
    LET wt == w.graph.node[wn.node].target
    IN  IF wn.err # "none" THEN Raise(w, wn.err)
        ELSE IF w.graph.node[wn.node].op # "get_attr" THEN Raise(w, "AssertionError")
        ELSE IF ~Broadcastable(w.attrs[wt], equalization_scale)
        THEN Raise(w, "RuntimeError")
        ELSE ScaleFunctionalRows(w, op_node, wt,
                                 TMul(w.attrs[wt], TReciprocal(equalization_scale)),
                                 next_equalization_scale)

\* scale_weight_functional
scale_weight_functional(w, op_node, equalization_scale, next_equalization_scale) ==
    ScaleFunctionalWeight(w, op_node,
                          maybe_get_functional_weight_node(w, op_node, "get_attr"),
                          equalization_scale, next_equalization_scale)

\* clear_weight_quant_obs_node once the weight's quantization observer was
\* looked up
ResetWeightQuantObs(w, qn) ==
    IF qn.err # "none" THEN Raise(w, qn.err)
    ELSE IF ~IsModuleNode(w, qn.node, "Observer") THEN Raise(w, "AssertionError")
    ELSE [w EXCEPT !.modules[w.graph.node[qn.node].target].min_val = T0(PosInf),
                   !.modules[w.graph.node[qn.node].target].max_val = T0(NegInf)]

\* clear_weight_quant_obs_node
clear_weight_quant_obs_node(w, op_node) ==
    IF ~OK(w) THEN w
    ELSE ResetWeightQuantObs(w, maybe_get_functional_weight_node(w, op_node, "quant_obs"))


(***************************************************************************)
(* The loop bodies of the two phases                                       *)
(***************************************************************************)
DictPut(d, k, v) == [x \in DOMAIN d \cup {k} |-> IF x = k THEN v ELSE d[x]]

EmptyDict == [x \in {} |-> NoModule]

\* update_obs_for_equalization lines 495-497: a bound operator's new weight
\* observer is run on the operator's weight
CalibratedWeightEqObs(w, r) ==
    IF w.graph.node[r.op_node].op = "call_module"
    THEN [r.weight_eq_obs EXCEPT
             !.min_val = ColMin(w.modules[w.graph.node[r.op_node].target].weight),
             !.max_val = ColMax(w.modules[w.graph.node[r.op_node].target].weight)]
    ELSE r.weight_eq_obs

\* update_obs_for_equalization lines 502-509: the scale is stored in both
\* observers and the operator is recorded
StoreScale(w, dict, n, op_node, weight_eq_obs, sc) ==
    LET it == w.graph.node[n].target
        opn == w.graph.node[op_node]
        weight_eq_obs2 == [weight_eq_obs EXCEPT !.equalization_scale = sc.value]
        wt == w.graph.node[opn.args[WEIGHT_INDEX_DICT["F.linear"] + 1]].target
    IN  IF sc.raised # "none" THEN [world |-> Raise(w, sc.raised), dict |-> dict]
        ELSE [world |-> IF opn.op = "call_module"
                        THEN [w EXCEPT !.modules[it].equalization_scale = sc.value]
                        ELSE [w EXCEPT !.modules[it].equalization_scale = sc.value,
                                       !.modules[wt] = weight_eq_obs2],
              dict  |-> DictPut(dict, op_node, weight_eq_obs2)]

\* update_obs_for_equalization once the operator and its weight observer are known
UpdateObsFor(w, dict, n, r) ==
    IF r.err # "none" THEN [world |-> Raise(w, r.err), dict |-> dict]
    ELSE IF r.op_node = End THEN [world |-> w, dict |-> dict]
    ELSE StoreScale(w, dict, n, r.op_node, CalibratedWeightEqObs(w, r),
                    calculate_equalization_scale(w.modules[w.graph.node[n].target],
                                                 CalibratedWeightEqObs(w, r)))

\* update_obs_for_equalization, the body for one input probe: [world, dict]
update_obs_body(w, qmap, dict, n) ==
    UpdateObsFor(w, dict, n, get_op_node_and_weight_eq_obs(w, qmap, n))

\* utils.get_new_attr_name_with_prefix(prefix)(modules): modules is a dict and
\* has no attribute of any such name, so the counter stays at 0
get_new_attr_name_with_prefix(prefix) == prefix \o "0"

\* the name fx gives the node created for the equalization scale
ScaleNodeName(w, n) ==
    FreshName(w.graph,
              get_new_attr_name_with_prefix(
                  w.graph.node[w.graph.node[n].args[1]].args[1] \o "_equalization_scale"))

\* the name fx gives the node created for the multiplication
MulNodeName(w) == FreshName(w.graph, "mul")

\* convert_eq_obs lines 588-592: the node holding the equalization scale
CreateScaleNode(w, n) ==
    LET inp_quant_obs_node == w.graph.node[n].args[1]
        prev_node == w.graph.node[inp_quant_obs_node].args[1]
        name == get_new_attr_name_with_prefix(prev_node \o "_equalization_scale")
    IN  [w EXCEPT !.attrs = DictPut(w.attrs, name,
                                    w.modules[w.graph.node[n].target].equalization_scale),
                  !.graph = InsertBefore(w.graph, inp_quant_obs_node, ScaleNodeName(w, n),
                                         [op |-> "get_attr", target |-> name, args |-> <<>>])]

\* CreateMulNode that puts the multiply node in front of the scale node it
\* reads instead of behind it
CreateMulNode_before_scale(w, n, eq_scale_node) ==
    LET inp_quant_obs_node == w.graph.node[n].args[1]
        prev_node == w.graph.node[inp_quant_obs_node].args[1]
    IN  [w EXCEPT !.graph = InsertBefore(w.graph, eq_scale_node, MulNodeName(w),
                                         [op |-> "call_function", target |-> "torch.mul",
                                          args |-> <<prev_node, eq_scale_node>>])]

\* convert_eq_obs lines 595-597: the node multiplying the input with the scale
CreateMulNode(w, n, eq_scale_node) ==
    LET inp_quant_obs_node == w.graph.node[n].args[1]
        prev_node == w.graph.node[inp_quant_obs_node].args[1]
    IN  [w EXCEPT !.graph = InsertAfter(w.graph, eq_scale_node, MulNodeName(w),
                                        [op |-> "call_function", target |-> "torch.mul",
                                         args |-> <<prev_node, eq_scale_node>>])]

\* convert_eq_obs line 601
ReplaceQuantObsInput(w, n, mul_node) ==
    LET inp_quant_obs_node == w.graph.node[n].args[1]
        prev_node == w.graph.node[inp_quant_obs_node].args[1]
    IN  [w EXCEPT !.graph = replace_input_with(w.graph, inp_quant_obs_node, prev_node, mul_node)]

\* convert_eq_obs lines 595-601, in the world that holds the scale node
InsertMulNode(w, n, eq_scale_node) ==
    ReplaceQuantObsInput(CreateMulNode(w, n, eq_scale_node), n, MulNodeName(w))

\* InsertScaleAndMul that puts a multiply node in front of every probe, also
\* of one that follows a layer that is equalized
InsertScaleAndMul_everywhere(w, n) ==
    IF ~OK(w) THEN w
    ELSE InsertMulNode(CreateScaleNode(w, n), n, ScaleNodeName(w, n))

\* convert_eq_obs lines 577-601, in the world scale_input_observer left
InsertScaleAndMul(w, n) ==
    IF ~OK(w) THEN w
    ELSE IF node_supports_equalization(w, w.graph.node[w.graph.node[n].args[1]].args[1])
    THEN w
    ELSE InsertMulNode(CreateScaleNode(w, n), n, ScaleNodeName(w, n))

\* convert_eq_obs lines 566-601: the world just before the probe is removed
convert_probe_pre(w, n) ==
    IF Len(w.graph.node[w.graph.node[n].args[1]].args) = 0 THEN Raise(w, "IndexError")
    ELSE InsertScaleAndMul(scale_input_observer(w, n), n)

\* convert_eq_obs line 602 with the probe's users relinked to the node in
\* front of the quantization observer instead of to the quantization observer
convert_probe_body_bypass(pre, n) ==
    remove_node(pre, n, pre.graph.node[pre.graph.node[n].args[1]].args[1])

\* convert_eq_obs line 602, in the world lines 566-601 left: the probe is removed
convert_probe_body(pre, n) ==
    remove_node(pre, n, pre.graph.node[n].args[1])

\* convert_eq_obs lines 626-630: the weight's equalization probe is removed
RemoveWeightEqObs(w, weight_eq_obs_node) ==
    IF ~OK(w) THEN w
    ELSE remove_node(w, weight_eq_obs_node, w.graph.node[weight_eq_obs_node].args[1])

\* convert_eq_obs lines 615-630, once the weight's equalization probe was looked up
ClearAndRemove(w, n, eqn) ==
    IF eqn.err # "none" THEN Raise(w, eqn.err)
    ELSE RemoveWeightEqObs(clear_weight_quant_obs_node(w, n), eqn.node)

\* convert_eq_obs lines 613-630, in the world scale_weight_functional left
FunctionalTail(w, n) ==
    IF ~OK(w) THEN w
    ELSE ClearAndRemove(w, n, maybe_get_functional_weight_node(w, n, "eq_obs"))

\* convert_eq_obs lines 607-630, once the two scales are known
ScaleOperator(w, n, equalization_scale, maybe_next_equalization_scale) ==
    IF w.graph.node[n].op = "call_module"
    THEN scale_weight_node(w, n, equalization_scale, maybe_next_equalization_scale)
    ELSE IF w.graph.node[n].op = "call_function"
    THEN FunctionalTail(scale_weight_functional(w, n, equalization_scale,
                                                maybe_next_equalization_scale), n)
    ELSE Raise(w, "ValueError")

\* convert_eq_obs lines 604-630: the body for one operator of weight_eq_obs_dict
convert_op_body(w, dict, n) ==
    ScaleOperator(w, n, dict[n].equalization_scale,
                  maybe_get_next_equalization_scale(w, n))


(***************************************************************************)
(* The models the pass is run on, as prepare and calibration leave them:   *)
(*   x -> obs0 -> eq1 -> linear1 -> obs1 [-> eq2 -> linear2 -> obs2]       *)
(* where a functional linear k also reads                                  *)
(*   w<k> -> w<k>_obs -> w<k>_eq   and, if it has a bias,   bias<k>.       *)
(* Topology "noprobe" is the chain whose layer 1 is not equalized (no eq1, *)
(* no w1_eq); topology "fanout" has both layers read obs0 through their    *)
(* own probes, the output being the pair of obs1 and obs2.                 *)
(***************************************************************************)
EqName == <<"eq1", "eq2">>

LinearName == <<"linear1", "linear2">>

ObsName == <<"obs1", "obs2">>

WName == <<"w1", "w2">>

WObsName == <<"w1_obs", "w2_obs">>

WEqName == <<"w1_eq", "w2_eq">>

BiasName == <<"bias1", "bias2">>

Layers(c) == IF c.topo = "single" THEN {1} ELSE {1, 2}

InName(k) == IF k = 1 THEN "obs0" ELSE ObsName[k - 1]

\* the quantization observer layer k of model c reads from
InNameOf(c, k) == IF c.topo = "fanout" THEN "obs0" ELSE InName(k)

\* layer k of model c is set up for equalization
HasProbe(c, k) == ~(c.topo = "noprobe" /\ k = 1)

\* the layer whose calibration data layer k's input probe saw
DataOf(c, k) == IF c.topo = "fanout" THEN 1 ELSE k

Stats == [valid : {TRUE}, widths : [1..NumFeatures -> Widths]]
            \cup {[valid |-> FALSE, widths |-> [j \in 1..NumFeatures |-> 0]]}

DefaultStats == [valid |-> TRUE, widths |-> [j \in 1..NumFeatures |-> 2]]

Configs ==
    {c \in [topo : {"single", "chain", "noprobe", "fanout"},
            conv : [1..2 -> {"module", "functional"}],
            bias : [1..2 -> BOOLEAN],
            stats : [1..2 -> Stats],
            wcal : [1..2 -> BOOLEAN],
            weight : WeightChoices[1] \X WeightChoices[2]] :
        /\ \A k \in 1..2 : c.conv[k] = "module" => c.wcal[k]
        /\ c.topo = "single" =>
              /\ c.conv[2] = "module" /\ c.bias[2] /\ c.stats[2] = DefaultStats
              /\ c.weight[2] = CHOOSE m \in WeightChoices[2] : TRUE
        /\ c.topo = "noprobe" => c.stats[1] = DefaultStats /\ c.wcal[1]
        /\ c.topo = "fanout" => c.stats[2] = c.stats[1]}

MinIn(c, k) == IF c.stats[k].valid THEN IntT1(MinInputs[DataOf(c, k)]) ELSE EmptyTensor

MaxIn(c, k) ==
    IF c.stats[k].valid
    THEN IntT1([j \in 1..NumFeatures |->
                   MinInputs[DataOf(c, k)][j] + c.stats[k].widths[j]])
    ELSE EmptyTensor

\* the operand through which the operator of layer k reads its input
OpInput(c, k) == IF HasProbe(c, k) THEN EqName[k] ELSE InNameOf(c, k)

\* the operand through which a functional operator of layer k reads its weight
OpWeight(c, k) == IF HasProbe(c, k) THEN WEqName[k] ELSE WObsName[k]

LayerNodes(c, k) ==
    (IF HasProbe(c, k)
     THEN <<Node(EqName[k], "call_module", EqName[k], <<InNameOf(c, k)>>)>>
     ELSE <<>>)
    \o (IF c.conv[k] = "module"
        THEN <<Node(LinearName[k], "call_module", LinearName[k], <<OpInput(c, k)>>)>>
        ELSE <<Node(WName[k], "get_attr", WName[k], <<>>),
               Node(WObsName[k], "call_module", WObsName[k], <<WName[k]>>)>>
             \o (IF HasProbe(c, k)
                 THEN <<Node(WEqName[k], "call_module", WEqName[k], <<WObsName[k]>>)>>
                 ELSE <<>>)
             \o (IF c.bias[k] THEN <<Node(BiasName[k], "get_attr", BiasName[k], <<>>)>>
                 ELSE <<>>)
             \o <<Node(LinearName[k], "call_function", "F.linear",
                       <<OpInput(c, k), OpWeight(c, k)>>
                       \o (IF c.bias[k] THEN <<BiasName[k]>> ELSE <<>>))>>)
    \o <<Node(ObsName[k], "call_module", ObsName[k], <<LinearName[k]>>)>>

\* what the output node returns
OutputArgs(c) ==
    IF c.topo = "single" THEN <<ObsName[1]>>
    ELSE IF c.topo = "fanout" THEN <<ObsName[1], ObsName[2]>>
    ELSE <<ObsName[2]>>

GraphOf(c) ==
    MkGraph(<<Node("x", "placeholder", "x", <<>>),
              Node("obs0", "call_module", "obs0", <<"x">>)>>
            \o LayerNodes(c, 1)
            \o (IF c.topo # "single" THEN LayerNodes(c, 2) ELSE <<>>)
            \o <<Node("output", "output", "output", OutputArgs(c))>>)

\* The quantization observer in front of layer k saw the data layer k's probe saw.
InQuantObs(c, k) ==
    IF c.stats[k].valid THEN QuantObs(TMin(MinIn(c, k)), TMax(MaxIn(c, k)))
    ELSE QuantObs(T0(PosInf), T0(NegInf))

\* the quantization observer behind layer k feeds the probe of layer k + 1
FeedsNext(c, k) == c.topo \in {"chain", "noprobe"} /\ k = 1

\* The quantization observer in front of a layer without a probe.
PlainQuantObs == QuantObs(TMin(IntT1(MinInputs[1])), T0(R(5)))

ModulesOf(c) ==
    LET L == Layers(c)
        P == {k \in L : HasProbe(c, k)}
        W(k) == IntT2(c.weight[k])
        names == {"obs0"} \cup {ObsName[k] : k \in L} \cup {EqName[k] : k \in P}
                 \cup {LinearName[k] : k \in {l \in L : c.conv[l] = "module"}}
                 \cup {WObsName[k] : k \in {l \in L : c.conv[l] = "functional"}}
                 \cup {WEqName[k] : k \in {l \in P : c.conv[l] = "functional"}}
        mod(n) ==
            IF n = "obs0"
            THEN IF HasProbe(c, 1) THEN InQuantObs(c, 1) ELSE PlainQuantObs
            ELSE LET k == CHOOSE k \in L : n \in {ObsName[k], EqName[k], LinearName[k],
                                                 WObsName[k], WEqName[k]}
                 IN  CASE n = ObsName[k] ->
                            IF FeedsNext(c, k) THEN InQuantObs(c, k + 1)
                            ELSE QuantObs(T0(R(-5)), T0(R(5)))
                       [] n = EqName[k] -> InputEqObs(MinIn(c, k), MaxIn(c, k))
                       [] n = LinearName[k] ->
                            LinearModule(W(k), IF c.bias[k] THEN IntT1(BiasValues[k])
                                               ELSE NoneValue)
                       [] n = WObsName[k] -> QuantObs(TMin(W(k)), TMax(W(k)))
                       [] n = WEqName[k] ->
                            IF c.wcal[k] THEN WeightEqObs(ColMin(W(k)), ColMax(W(k)))
                            ELSE WeightEqObs(EmptyTensor, EmptyTensor)
    IN  [n \in names |-> mod(n)]

AttrsOf(c) ==
    LET F == {k \in Layers(c) : c.conv[k] = "functional"}
        names == {WName[k] : k \in F} \cup {BiasName[k] : k \in {l \in F : c.bias[l]}}
    IN  [n \in names |->
            LET k == CHOOSE k \in F : n \in {WName[k], BiasName[k]}
            IN  IF n = WName[k] THEN IntT2(c.weight[k]) ELSE IntT1(BiasValues[k])]

QConfigOf(c) ==
    {LinearName[k] : k \in {l \in Layers(c) : HasProbe(c, l) /\ c.conv[l] = "module"}}

Snapshot(g, m, a) == [graph |-> g, modules |-> m, attrs |-> a]

NoScaleCall == [min_in |-> EmptyTensor, max_in |-> EmptyTensor,
                min_w |-> EmptyTensor, max_w |-> EmptyTensor]

NoScaleResult == [called |-> FALSE, raised |-> "none", value |-> NoneValue]

Init ==
    /\ cfg \in Configs
    /\ graph = GraphOf(cfg)
    /\ modules = ModulesOf(cfg)
    /\ attrs = AttrsOf(cfg)
    /\ qconfig_map = QConfigOf(cfg)
    /\ weight_eq_obs_dict = EmptyDict
    /\ pc = "phase1"
    /\ cur = First(graph)
    /\ err = "none"
    /\ run = 1
    /\ warned = {}
    /\ orig = Snapshot(graph, modules, attrs)
    /\ snap = Snapshot(graph, modules, attrs)
    /\ scale_in = NoScaleCall
    /\ scale_out = NoScaleResult

(***************************************************************************)
(* _convert_equalization_ref                                               *)
(***************************************************************************)
Now == World(graph, modules, attrs, warned)

Commit(w) ==
    /\ graph' = w.graph
    /\ modules' = w.modules
    /\ attrs' = w.attrs
    /\ warned' = w.warned
    /\ err' = w.err

Frame == UNCHANGED <<qconfig_map, cfg, orig, scale_in, scale_out>>

\* one iteration of a loop ends in world w: the loop goes on with nxt unless
\* an exception leaves the pass
Step(w, nxt) ==
    /\ Commit(w)
    /\ pc' = IF OK(w) THEN pc ELSE "error"
    /\ cur' = IF OK(w) THEN nxt ELSE cur

\* update_obs_for_equalization: an iteration that finds an input probe
Phase1Probe ==
    /\ pc = "phase1"
    /\ cur # End
    /\ IsModuleNode(Now, cur, "InputEqObs")
    /\ Step(update_obs_body(Now, qconfig_map, weight_eq_obs_dict, cur).world,
            NextOf(graph, cur))
    /\ weight_eq_obs_dict' = update_obs_body(Now, qconfig_map, weight_eq_obs_dict, cur).dict
    /\ UNCHANGED <<run, snap>>
    /\ Frame

\* update_obs_for_equalization: an iteration on any other node
Phase1Skip ==
    /\ pc = "phase1"
    /\ cur # End
    /\ ~IsModuleNode(Now, cur, "InputEqObs")
    /\ cur' = NextOf(graph, cur)
    /\ UNCHANGED <<graph, modules, attrs, warned, err, weight_eq_obs_dict, pc, run, snap>>
    /\ Frame

\* update_obs_for_equalization returns and convert_eq_obs starts
Phase1Return ==
    /\ pc = "phase1"
    /\ cur = End
    /\ pc' = "phase2"
    /\ cur' = First(graph)
    /\ UNCHANGED <<graph, modules, attrs, warned, err, weight_eq_obs_dict, run, snap>>
    /\ Frame

\* convert_eq_obs line 602 and the step of the loop: the iterator goes on from
\* the removed probe's successor
RemoveProbe(pre) == Step(convert_probe_body(pre, cur), NextOf(pre.graph, cur))

\* convert_eq_obs: an iteration on an input probe
Phase2Probe ==
    /\ pc = "phase2"
    /\ cur # End
    /\ IsModuleNode(Now, cur, "InputEqObs")
    /\ RemoveProbe(convert_probe_pre(Now, cur))
    /\ UNCHANGED <<weight_eq_obs_dict, run, snap>>
    /\ Frame

\* the step of the loop after an operator was scaled
NextAfter(w) == Step(w, NextOf(w.graph, cur))

\* convert_eq_obs: an iteration on an operator that phase 1 recorded
Phase2Op ==
    /\ pc = "phase2"
    /\ cur # End
    /\ ~IsModuleNode(Now, cur, "InputEqObs")
    /\ cur \in DOMAIN weight_eq_obs_dict
    /\ NextAfter(convert_op_body(Now, weight_eq_obs_dict, cur))
    /\ UNCHANGED <<weight_eq_obs_dict, run, snap>>
    /\ Frame

\* convert_eq_obs: an iteration on any other node
Phase2Skip ==
    /\ pc = "phase2"
    /\ cur # End
    /\ ~IsModuleNode(Now, cur, "InputEqObs")
    /\ cur \notin DOMAIN weight_eq_obs_dict
    /\ cur' = NextOf(graph, cur)
    /\ UNCHANGED <<graph, modules, attrs, warned, err, weight_eq_obs_dict, pc, run, snap>>
    /\ Frame

\* convert_eq_obs returns; GraphModule(model, model.graph) is returned
Phase2Return ==
    /\ pc = "phase2"
    /\ cur = End
    /\ pc' = "done"
    /\ UNCHANGED <<graph, modules, attrs, warned, err, weight_eq_obs_dict, cur, run, snap>>
    /\ Frame

\* A second call that keeps the operator map of the first call instead of
\* starting from an empty one
Rerun_keeps_dict ==
    /\ pc = "done"
    /\ run < MaxRuns
    /\ run' = run + 1
    /\ snap' = Snapshot(graph, modules, attrs)
    /\ pc' = "phase1"
    /\ cur' = First(graph)
    /\ UNCHANGED <<graph, modules, attrs, warned, err, weight_eq_obs_dict>>
    /\ Frame

\* _convert_equalization_ref is called again on the model it returned
Rerun ==
    /\ pc = "done"
    /\ run < MaxRuns
    /\ run' = run + 1
    /\ snap' = Snapshot(graph, modules, attrs)
    /\ weight_eq_obs_dict' = EmptyDict
    /\ pc' = "phase1"
    /\ cur' = First(graph)
    /\ UNCHANGED <<graph, modules, attrs, warned, err>>
    /\ Frame

Next ==
    \/ Phase1Probe
    \/ Phase1Skip
    \/ Phase1Return
    \/ Phase2Probe
    \/ Phase2Op
    \/ Phase2Skip
    \/ Phase2Return
    \/ Rerun

Spec == Init /\ [][Next]_vars


(***************************************************************************)
(* What a graph computes: the value of every node for a network input x.   *)
(* Observers (quantization and equalization probes) return their input.    *)
(***************************************************************************)
RECURSIVE NodeValue(_, _, _)
NodeValue(s, x, n) ==
    LET nd == s.graph.node[n]
        arg(k) == NodeValue(s, x, nd.args[k])
    IN  CASE nd.op = "placeholder" -> x
          [] nd.op = "get_attr" -> s.attrs[nd.target]
          [] nd.op = "output" -> arg(1)
          [] nd.op = "call_module" ->
                IF s.modules[nd.target].kind = "Linear"
                THEN Linear(arg(1), s.modules[nd.target].weight, s.modules[nd.target].bias)
                ELSE arg(1)
          [] nd.op = "call_function" ->
                IF nd.target = "F.linear"
                THEN Linear(arg(1), arg(2), IF Len(nd.args) >= 3 THEN arg(3) ELSE NoneValue)
                ELSE TMul(arg(1), arg(2))

Forward(s, x) == NodeValue(s, x, "output")

Inputs == {T2(<<[j \in 1..NumFeatures |-> R(v[j])]>>, NumFeatures) :
              v \in [1..NumFeatures -> (-MaxX)..MaxX]}

Current == Snapshot(graph, modules, attrs)

SameFunction(s, t) == \A x \in Inputs : Forward(s, x) = Forward(t, x)

\* Weight and bias of layer k in a snapshot, whichever way the operator stores them.
WeightOf(s, k) ==
    IF cfg.conv[k] = "module" THEN s.modules[LinearName[k]].weight ELSE s.attrs[WName[k]]

BiasOf(s, k) ==
    IF cfg.conv[k] = "module" THEN s.modules[LinearName[k]].bias
    ELSE IF cfg.bias[k] THEN s.attrs[BiasName[k]] ELSE NoneValue

ScaleOf(k) == modules[EqName[k]].equalization_scale

Positive(t) == \A k \in 1..Numel(t) : IsFinite(Flat(t)[k]) /\ Flat(t)[k].num > 0

MulNodes(g) == {n \in Live(g) : g.node[n].op = "call_function" /\ g.node[n].target = "torch.mul"}

ProbeNodes(s) ==
    {n \in Live(s.graph) :
        /\ s.graph.node[n].op = "call_module"
        /\ s.modules[s.graph.node[n].target].kind \in {"InputEqObs", "WeightEqObs"}}


(***************************************************************************)
(* Properties of _convert_equalization_ref (specification Spec)            *)
(***************************************************************************)
Done == pc = "done"

NonTrivial(t) == t.ndim = 1 /\ \E j \in 1..Numel(t) : Flat(t)[j] # R(1)

\* C1: for a single isolated equalized linear operator (bound or functional),
\* once the pass has returned, the activation reaching the operator is the
\* network input multiplied by the scale s stored in the graph, the operator's
\* weight columns are the original ones divided by that same s, s is strictly
\* positive, the bias is unchanged, and the graph computes the function it
\* computed before the pass.
C1_SingleLinearPreserved ==
    (Done /\ cfg.topo = "single") =>
        LET mul == graph.node["obs0"].args[1]
            s == attrs[graph.node[graph.node[mul].args[2]].target]
        IN  /\ mul \in MulNodes(graph)
            /\ graph.node[mul].args[1] = "x"
            /\ graph.node[LinearName[1]].args[1] = "obs0"
            /\ s = ScaleOf(1)
            /\ Positive(s)
            /\ \A i, j \in 1..NumFeatures :
                  RMul(At(WeightOf(Current, 1), i, j), At(s, 1, j))
                      = At(WeightOf(orig, 1), i, j)
            /\ BiasOf(Current, 1) = BiasOf(orig, 1)
            /\ SameFunction(Current, orig)

C1_Witness ==
    /\ Done
    /\ run = 1
    /\ cfg.topo = "single"
    /\ cfg.conv[1] = "functional"
    /\ cfg.bias[1]
    /\ NonTrivial(ScaleOf(1))
    /\ WeightOf(Current, 1) # WeightOf(orig, 1)

\* C3: when the pass has returned, the graph has no input equalization probe
\* node and no weight equalization probe node, and every node that read a
\* probe reads, in the same operand position, the node the probe read.
C3_ProbesRemoved ==
    Done =>
        /\ ProbeNodes(Current) = {}
        /\ \A p \in ProbeNodes(orig) :
              \A u \in DOMAIN orig.graph.node :
                 \A k \in 1..Len(orig.graph.node[u].args) :
                    orig.graph.node[u].args[k] = p =>
                        /\ u \in Live(graph)
                        /\ graph.node[u].args[k] = orig.graph.node[p].args[1]

C3_Witness ==
    /\ Done
    /\ run = 1
    /\ cfg.topo = "chain"
    /\ cfg.conv[1] = "functional"
    /\ {EqName[1], EqName[2], WEqName[1]} \subseteq ProbeNodes(orig)
    /\ graph.node[LinearName[1]].args[2] = WObsName[1]

\* C4: for two chained equalized layers fed by the network input, the
\* returned graph has exactly one multiply node, it multiplies the network
\* input and feeds layer 1's input quantization probe, nothing was inserted
\* between layer 1 and layer 2, and layer 1's weight is the original one with
\* column j divided by scale1[j] and row i multiplied by scale2[i].
C4_ChainOneMul ==
    (Done /\ cfg.topo = "chain") =>
        /\ Cardinality(MulNodes(graph)) = 1
        /\ \A m \in MulNodes(graph) :
              /\ graph.node[m].args[1] = "x"
              /\ graph.node["obs0"].args = <<m>>
              /\ attrs[graph.node[graph.node[m].args[2]].target] = ScaleOf(1)
        /\ graph.node[LinearName[1]].args[1] = "obs0"
        /\ graph.node[ObsName[1]].args = <<LinearName[1]>>
        /\ graph.node[LinearName[2]].args[1] = ObsName[1]
        /\ \A i, j \in 1..NumFeatures :
              RMul(At(WeightOf(Current, 1), i, j), At(ScaleOf(1), 1, j))
                  = RMul(At(WeightOf(orig, 1), i, j), At(ScaleOf(2), 1, i))

C4_Witness ==
    /\ Done
    /\ run = 1
    /\ cfg.topo = "chain"
    /\ NonTrivial(ScaleOf(1))
    /\ NonTrivial(ScaleOf(2))
    /\ Cardinality(MulNodes(graph)) = 1

\* C5: a second application of the pass to the graph the first one returned
\* (no equalization probe left) changes nothing: the operator map stays
\* empty, the graph, the weights, the biases and the observers' min/max stay
\* what they were when the first application returned, and nothing is raised.
C5_SecondRunNoOp ==
    (run >= 2 /\ ProbeNodes(snap) = {}) =>
        /\ weight_eq_obs_dict = EmptyDict
        /\ Current = snap
        /\ err = "none"
        /\ pc # "error"

C5_Witness ==
    /\ Done
    /\ run = 2
    /\ ProbeNodes(snap) = {}
    /\ WeightOf(snap, 1) # WeightOf(orig, 1)
    /\ MulNodes(snap.graph) # {}


\* The statistics of every site of the drawn model are valid.
AllStatsValid == \A k \in Layers(cfg) : cfg.stats[k].valid /\ cfg.wcal[k]

\* Phase 2 has rewritten the weight of layer 1 without raising.
Layer1Rewritten ==
    /\ pc \in {"phase2", "done"}
    /\ run = 1
    /\ err = "none"
    /\ cur \in Live(graph) \cup {End}
    /\ cur = End \/ IndexOf(graph, cur) > IndexOf(graph, LinearName[1])

\* C2: for two directly chained equalized linear operators, bound or
\* functional, with finalized scales scale1 and scale2 (every site's
\* statistics valid), once the pass has returned the composed function is the one
\* computed before the pass: layer 1's weight has column j divided by
\* scale1[j] and row i multiplied by scale2[i], layer 1's bias is multiplied
\* by scale2, and layer 2's weight has column j divided by scale2[j].
C2_ChainPreserved ==
    (Done /\ cfg.topo = "chain" /\ AllStatsValid) =>
        /\ \A i, j \in 1..NumFeatures :
              /\ RMul(At(WeightOf(Current, 1), i, j), At(ScaleOf(1), 1, j))
                    = RMul(At(WeightOf(orig, 1), i, j), At(ScaleOf(2), 1, i))
              /\ RMul(At(WeightOf(Current, 2), i, j), At(ScaleOf(2), 1, j))
                    = At(WeightOf(orig, 2), i, j)
        /\ cfg.bias[1] => BiasOf(Current, 1) = TMul(BiasOf(orig, 1), ScaleOf(2))
        /\ SameFunction(Current, orig)

\* C8: invalid statistics on either side of any site are recoverable: the
\* site's scale becomes the identity scale and neither phase raises, also
\* when the site is a layer of a chain.
C8_InvalidStatsRecoverable ==
    \A k \in Layers(cfg) :
        (~cfg.stats[k].valid \/ ~cfg.wcal[k]) =>
            /\ err = "none"
            /\ pc # "error"
            /\ (pc \in {"phase2", "done"} /\ run = 1) => ScaleOf(k) = T0(R(1))

\* C9: for a functional linear operator with a bias whose output feeds
\* another equalized layer, the weight rewrite multiplies the stored bias
\* attribute element-wise by the next layer's scale.
C9_FunctionalBiasScaled ==
    (cfg.topo = "chain" /\ cfg.conv[1] = "functional" /\ cfg.bias[1] /\ AllStatsValid
        /\ Layer1Rewritten) =>
        attrs[BiasName[1]] = TMul(orig.attrs[BiasName[1]], ScaleOf(2))

\* C10: for a linear operator without a bias whose output feeds another
\* equalized layer, the weight rewrite divides the weight's columns by the
\* scale, multiplies its rows by the next scale and does not raise.
C10_NoBiasSkipped ==
    (cfg.topo = "chain" /\ ~cfg.bias[1] /\ AllStatsValid) =>
        /\ err = "none"
        /\ Layer1Rewritten =>
              \A i, j \in 1..NumFeatures :
                 RMul(At(WeightOf(Current, 1), i, j), At(ScaleOf(1), 1, j))
                     = RMul(At(WeightOf(orig, 1), i, j), At(ScaleOf(2), 1, i))

\* Every node of the order is listed once and is described, every operand of
\* a listed node is a listed node (none was erased) that precedes it.
WellFormed(g) ==
    /\ DOMAIN g.node = Live(g)
    /\ \A i, j \in 1..Len(g.order) : g.order[i] = g.order[j] => i = j
    /\ \A i \in 1..Len(g.order) : \A k \in 1..Len(g.node[g.order[i]].args) :
          /\ g.node[g.order[i]].args[k] \in Live(g)
          /\ IndexOf(g, g.node[g.order[i]].args[k]) < i

Operands(g, n) == {g.node[n].args[k] : k \in 1..Len(g.node[n].args)}

\* what is left of the nodes S after the nodes that read from no node of S
\* are taken away, again and again
RECURSIVE Peel(_, _)
Peel(g, S) ==
    LET roots == {n \in S : Operands(g, n) \cap S = {}}
    IN  IF roots = {} THEN S ELSE Peel(g, S \ roots)

\* no node reads, directly or through other nodes, from itself
Acyclic(g) == Peel(g, DOMAIN g.node) = {}

Sound(g) == WellFormed(g) /\ Acyclic(g)

\* The graphs that the iteration of convert_eq_obs on the input probe n goes
\* through in world w, one per mutation, in the order of the mutations.
ProbeStepGraphs(w, n) ==
    LET w1 == scale_input_observer(w, n)
        prev_node == w.graph.node[w.graph.node[n].args[1]].args[1]
        w2 == CreateScaleNode(w1, n)
        w3 == CreateMulNode(w2, n, ScaleNodeName(w1, n))
        w4 == ReplaceQuantObsInput(w3, n, MulNodeName(w2))
        pre == convert_probe_pre(w, n)
        g5 == RelinkUsers(pre.graph, n, pre.graph.node[n].args[1])
        g6 == erase_node(g5, n)
    IN  IF ~OK(w1) THEN <<>>
        ELSE (IF node_supports_equalization(w1, prev_node) THEN <<>>
              ELSE <<w2.graph, w3.graph, w4.graph>>)
             \o <<g5, g6>>

\* The graphs that the iteration of convert_eq_obs on the functional operator
\* n goes through in world w when it removes the weight's equalization probe.
OpStepGraphs(w, n) ==
    LET w1 == ScaleOperator(w, n, weight_eq_obs_dict[n].equalization_scale,
                            maybe_get_next_equalization_scale(w, n))
        eqn == maybe_get_functional_weight_node(w, n, "eq_obs").node
        g1 == RelinkUsers(w.graph, eqn, w.graph.node[eqn].args[1])
    IN  IF w.graph.node[n].op = "call_function" /\ OK(w1)
        THEN <<g1, erase_node(g1, eqn)>>
        ELSE <<>>

AtProbe == pc = "phase2" /\ cur # End /\ IsModuleNode(Now, cur, "InputEqObs")

AtOperator ==
    /\ pc = "phase2"
    /\ cur # End
    /\ ~IsModuleNode(Now, cur, "InputEqObs")
    /\ cur \in DOMAIN weight_eq_obs_dict

AllSound(gs) == \A i \in 1..Len(gs) : Sound(gs[i])

\* the last graph of gs, if any, is the graph the iteration leaves in world w
EndsIn(gs, w) == (OK(w) /\ Len(gs) > 0) => gs[Len(gs)] = w.graph

\* C13: the graph is well formed after every single mutation of phase 2
\* (the scale node is created, the multiply node is created, the
\* quantization observer's operand is replaced, the users of a probe are
\* relinked, the probe is erased): it has no cycle, every operand of every
\* node is a node of the graph that precedes it in the node order, and no
\* node has an erased node as operand.
C13_StepsKeepGraphSound ==
    /\ Sound(graph)
    /\ AtProbe =>
          /\ AllSound(ProbeStepGraphs(Now, cur))
          /\ EndsIn(ProbeStepGraphs(Now, cur),
                    convert_probe_body(convert_probe_pre(Now, cur), cur))
    /\ AtOperator =>
          /\ AllSound(OpStepGraphs(Now, cur))
          /\ EndsIn(OpStepGraphs(Now, cur), convert_op_body(Now, weight_eq_obs_dict, cur))

\* A probe behind a non-linear node was replaced by a scale node and a
\* multiply node, and a functional operator's weight probe was removed.
C13_Witness ==
    /\ pc = "phase2"
    /\ err = "none"
    /\ cfg.topo = "fanout"
    /\ cfg.conv[1] = "functional"
    /\ Cardinality(MulNodes(graph)) = 2
    /\ WEqName[1] \notin Live(graph)
    /\ EqName[2] \notin Live(graph)
    /\ Len(graph.order) > Len(orig.graph.order)

\* the scale the columns of layer k's weight are divided by: the scale of its
\* own input probe, or none when the layer has no probe
OwnScale(k) == IF HasProbe(cfg, k) THEN ScaleOf(k) ELSE T0(R(1))

\* C14: when the pass has returned from a model whose layer 2 probe sits
\* behind the quantization observer of the linear operator of layer 1, so
\* that phase 2 deleted that probe without inserting a multiply node, the
\* rows of layer 1's weight and layer 1's bias are multiplied by the deleted
\* probe's scale, whether or not layer 1 has an input probe of its own.
C14_SkippedScaleFolded ==
    (Done /\ cfg.topo \in {"chain", "noprobe"} /\ AllStatsValid
        /\ MulNodes(graph) \cap Operands(graph, ObsName[1]) = {}
        /\ EqName[2] \notin Live(graph)) =>
        /\ \A i, j \in 1..NumFeatures :
              RMul(At(WeightOf(Current, 1), i, j), At(OwnScale(1), 1, j))
                  = RMul(At(WeightOf(orig, 1), i, j), At(ScaleOf(2), 1, i))
        /\ cfg.bias[1] => BiasOf(Current, 1) = TMul(BiasOf(orig, 1), ScaleOf(2))

\* the activation that reaches the operator of layer k for the network input x
Activation(s, x, k) == NodeValue(s, x, s.graph.node[LinearName[k]].args[1])

\* C15: when two input probes read the same quantization observer (obs0 fans
\* out to the two layers) and the pass has returned, each layer's weight
\* columns are divided by that layer's own scale and the activation reaching
\* that layer's operator is the network input multiplied by that same scale
\* and by nothing else.
C15_FanOutOwnScale ==
    (Done /\ cfg.topo = "fanout" /\ AllStatsValid) =>
        \A k \in Layers(cfg) :
            /\ \A i, j \in 1..NumFeatures :
                  RMul(At(WeightOf(Current, k), i, j), At(ScaleOf(k), 1, j))
                      = At(WeightOf(orig, k), i, j)
            /\ \A x \in Inputs : Activation(Current, x, k) = TMul(x, ScaleOf(k))

(***************************************************************************)
(* calculate_equalization_scale on its own (specification ScaleSpec): the  *)
(* two observers hold any statistics of 0..MaxChannels channels, a channel *)
(* being [0, w] for a range w, [0, 0], [-1, 1] or the inverted [1, 0].     *)
(***************************************************************************)
ChannelRanges ==
    {<<0, w>> : w \in Widths} \cup {<<0, 0>>, <<-1, 1>>, <<1, 0>>}

StatVectors ==
    UNION {[1..n -> ChannelRanges] : n \in 0..MaxChannels}

MinOf(v) == IntT1([j \in 1..Len(v) |-> v[j][1]])

MaxOf(v) == IntT1([j \in 1..Len(v) |-> v[j][2]])

ScaleCalls ==
    {[min_in |-> MinOf(a), max_in |-> MaxOf(a), min_w |-> MinOf(b), max_w |-> MaxOf(b)] :
        a \in StatVectors, b \in StatVectors}

ScaleInit ==
    /\ scale_in \in ScaleCalls
    /\ scale_out = NoScaleResult
    /\ cfg = [topo |-> "none"]
    /\ graph = MkGraph(<<>>)
    /\ modules = EmptyDict
    /\ attrs = EmptyDict
    /\ qconfig_map = {}
    /\ weight_eq_obs_dict = EmptyDict
    /\ pc = "idle"
    /\ cur = End
    /\ err = "none"
    /\ run = 0
    /\ warned = {}
    /\ orig = Snapshot(graph, modules, attrs)
    /\ snap = Snapshot(graph, modules, attrs)

\* calculate_equalization_scale(input_obs, weight_obs)
CalculateScale ==
    /\ pc = "idle"
    /\ ~scale_out.called
    /\ LET r == calculate_equalization_scale(
                    InputEqObs(scale_in.min_in, scale_in.max_in),
                    WeightEqObs(scale_in.min_w, scale_in.max_w))
       IN  scale_out' = [called |-> TRUE, raised |-> r.raised, value |-> r.value]
    /\ UNCHANGED <<graph, modules, attrs, qconfig_map, weight_eq_obs_dict, pc, cur, err,
                   run, warned, cfg, orig, snap, scale_in>>

ScaleNext == CalculateScale

ScaleSpec == ScaleInit /\ [][ScaleNext]_vars

InputsValid == check_min_max_valid(scale_in.min_in, scale_in.max_in)

WeightsValid == check_min_max_valid(scale_in.min_w, scale_in.max_w)

NonZeroRanges ==
    /\ \A j \in 1..Numel(scale_in.min_in) : scale_in.min_in.val[j] # scale_in.max_in.val[j]
    /\ \A j \in 1..Numel(scale_in.min_w) : scale_in.min_w.val[j] # scale_in.max_w.val[j]

ChannelsIn == Numel(scale_in.min_in)

ChannelsW == Numel(scale_in.min_w)

Sq(a) == RMul(a, a)

\* C6: for valid statistics of equal length in which every activation channel
\* and every weight column has a non-zero range, calculate_equalization_scale
\* returns one strictly positive entry per channel with
\*   scale[j]^2 * (max_in[j] - min_in[j]) = max_w[j] - min_w[j],
\* so that the scaled ranges (max_in[j] - min_in[j]) * scale[j] and
\* (max_w[j] - min_w[j]) / scale[j] are equal; activation range [0, 2] and
\* weight range [0, 8] give scale 2 and both scaled ranges become [0, 4].
C6_BalancedScale ==
    (scale_out.called /\ InputsValid /\ WeightsValid /\ NonZeroRanges
        /\ ChannelsIn = ChannelsW) =>
        /\ scale_out.raised = "none"
        /\ Shape(scale_out.value) = <<ChannelsIn>>
        /\ Positive(scale_out.value)
        /\ \A j \in 1..ChannelsIn :
              LET sj == scale_out.value.val[j]
                  rin == RSub(scale_in.max_in.val[j], scale_in.min_in.val[j])
                  rw == RSub(scale_in.max_w.val[j], scale_in.min_w.val[j])
              IN  /\ RMul(Sq(sj), rin) = rw
                  /\ RMul(rin, sj) = RDiv(rw, sj)
                  /\ (scale_in.min_in.val[j] = R(0) /\ scale_in.max_in.val[j] = R(2)
                        /\ scale_in.min_w.val[j] = R(0) /\ scale_in.max_w.val[j] = R(8)) =>
                        /\ sj = R(2)
                        /\ RMul(scale_in.max_in.val[j], sj) = R(4)
                        /\ RDiv(scale_in.max_w.val[j], sj) = R(4)

C6_Witness ==
    /\ scale_out.called
    /\ scale_in.min_in = IntT1(<<0, -1>>)
    /\ scale_in.max_in = IntT1(<<2, 1>>)
    /\ scale_in.min_w = IntT1(<<0, 0>>)
    /\ scale_in.max_w = IntT1(<<8, 8>>)
    /\ scale_out.value = IntT1(<<2, 2>>)

\* C7 as stated: whenever the two sides have different channel counts the
\* call raises and returns no scale.
C7_MismatchAlwaysRaises ==
    (scale_out.called /\ ChannelsIn # ChannelsW) =>
        /\ scale_out.raised # "none"
        /\ scale_out.value = NoneValue

\* C7 amended: whenever both sides' statistics are valid and their channel
\* counts differ, the call raises ValueError and returns no scale.
C7_ValidMismatchRaises ==
    (scale_out.called /\ InputsValid /\ WeightsValid /\ ChannelsIn # ChannelsW) =>
        /\ scale_out.raised = "ValueError"
        /\ scale_out.value = NoneValue

C7_Witness ==
    /\ scale_out.called
    /\ InputsValid
    /\ WeightsValid
    /\ ChannelsIn = 1
    /\ ChannelsW = 2
    /\ scale_out.raised = "ValueError"

ZeroRangeIn == \E j \in 1..ChannelsIn : scale_in.min_in.val[j] = scale_in.max_in.val[j]

\* C11: when some activation channel has zero range (max_in[j] = min_in[j])
\* and the two sides have the same number of channels,
\* calculate_equalization_scale returns the identity fallback for the whole
\* vector, without raising.
C11_ZeroRangeIdentity ==
    (scale_out.called /\ ZeroRangeIn /\ ChannelsIn = ChannelsW) =>
        /\ scale_out.raised = "none"
        /\ scale_out.value = T0(R(1))


(***************************************************************************)
(* scale_input_observer on its own (specification ObserverSpec): an input  *)
(* probe eq1 behind the quantization observer obs0, both calibrated on the *)
(* same data, the probe's scale being still empty, the identity fallback   *)
(* or one positive entry per channel.                                      *)
(***************************************************************************)
CalibratedRanges == {<<0, w>> : w \in Widths} \cup {<<-1, 1>>}

CalibratedVectors == UNION {[1..n -> CalibratedRanges] : n \in 1..MaxChannels}

ScaleEntries == {R(1)} \cup {R(k) : k \in 2..MaxRoot} \cup {Frac(1, k) : k \in 2..MaxRoot}

ProbeScales(n) == {EmptyTensor, T0(R(1))} \cup {T1(v) : v \in [1..n -> ScaleEntries]}

ProbeGraph ==
    MkGraph(<<Node("x", "placeholder", "x", <<>>),
              Node("obs0", "call_module", "obs0", <<"x">>),
              Node("eq1", "call_module", "eq1", <<"obs0">>),
              Node("output", "output", "output", <<"eq1">>)>>)

ProbeModules(v, scale) ==
    [n \in {"obs0", "eq1"} |->
        IF n = "obs0" THEN QuantObs(TMin(MinOf(v)), TMax(MaxOf(v)))
        ELSE [InputEqObs(MinOf(v), MaxOf(v)) EXCEPT !.equalization_scale = scale]]

ObserverInit ==
    /\ \E v \in CalibratedVectors : \E scale \in ProbeScales(Len(v)) :
          modules = ProbeModules(v, scale)
    /\ graph = ProbeGraph
    /\ attrs = EmptyDict
    /\ qconfig_map = {}
    /\ weight_eq_obs_dict = EmptyDict
    /\ cfg = [topo |-> "probe"]
    /\ pc = "observer"
    /\ cur = "eq1"
    /\ err = "none"
    /\ run = 0
    /\ warned = {}
    /\ orig = Snapshot(graph, modules, attrs)
    /\ snap = Snapshot(graph, modules, attrs)
    /\ scale_in = NoScaleCall
    /\ scale_out = NoScaleResult

\* scale_input_observer(node, modules)
ScaleInputObserver ==
    /\ pc = "observer"
    /\ Commit(scale_input_observer(Now, cur))
    /\ pc' = "observed"
    /\ UNCHANGED <<weight_eq_obs_dict, cur, run, snap>>
    /\ Frame

ObserverNext == ScaleInputObserver

ObserverSpec == ObserverInit /\ [][ObserverNext]_vars

ProbeBefore == orig.modules["eq1"]

\* C12: when scale_input_observer has run on a probe whose scale was still
\* empty, a diagnostic was emitted and the preceding quantization observer's
\* min_val and max_val are what they were; when the scale was finalized they
\* are the minimum over j of min_in[j]*scale[j] and the maximum over j of
\* max_in[j]*scale[j].
C12_UnfinalizedLeavesMinMax ==
    (pc = "observed") =>
        IF Numel(ProbeBefore.equalization_scale) = 0
        THEN /\ err = "none"
             /\ "eq1" \in warned
             /\ modules["obs0"].min_val = orig.modules["obs0"].min_val
             /\ modules["obs0"].max_val = orig.modules["obs0"].max_val
        ELSE /\ err = "none"
             /\ modules["obs0"].min_val =
                    TMin(TMul(ProbeBefore.min_val, ProbeBefore.equalization_scale))
             /\ modules["obs0"].max_val =
                    TMax(TMul(ProbeBefore.max_val, ProbeBefore.equalization_scale))

=============================================================================
